---- MODULE Spec2Model ----
(***************************************************************************)
(* A model of marxs/optics/aperture.py (FlatAperture, RectangleAperture,   *)
(* CircleAperture, MultiAperture) and of the FlatDetector pixel grid       *)
(* exercised by marxs/optics/tests/test_detector.py.                       *)
(*                                                                         *)
(* Real numbers are exact fixed-point integers; every scale is named.      *)
(***************************************************************************)
EXTENDS Integers, Sequences, FiniteSets, TLC

VARIABLES circ, flat, assign, multi, det

vars == <<circ, flat, assign, multi, det>>

Abs(a) == IF a < 0 THEN -a ELSE a

(***************************************************************************)
(* CircleAperture.__init__  (aperture.py 126-133)                          *)
(* Lengths here are in units of numpy.isclose's absolute tolerance.        *)
(***************************************************************************)
\* numpy.isclose defaults: rtol = 1e-5 (1/RTolDen), atol = 1e-8 (ATol units).
RTolDen == 100000
ATol == 1

\* How far (in tolerance units) the sampled lengths spread above RTolDen.
MaxDelta == 3

\* np.isclose(a, b): |a - b| <= atol + rtol * |b|.  The left side is an
\* integer, so the comparison with the real |b| / RTolDen is one with its floor.
IsClose(a, b) == Abs(a - b) - ATol <= Abs(b) \div RTolDen

Lengths == {RTolDen + d : d \in 0..MaxDelta} \cup {2 * RTolDen}
InnerRadii == {0} \cup {RTolDen + d : d \in (0 - 1)..(MaxDelta + 1)}

\* Faulty variant: the symmetry check comparing v_y with itself
CircleInitOutcomeNoSymmetry(r_inner, vy, vz) ==
    IF r_inner > vy THEN "ValueError"
    ELSE IF ~IsClose(vy, vy) THEN "GeometryError"
    ELSE "ok"

\* The outcome of the two checks of __init__, in the order the code makes them.
CircleInitOutcome(r_inner, vy, vz) ==
    IF r_inner > vy THEN "ValueError"
    ELSE IF ~IsClose(vy, vz) THEN "GeometryError"
    ELSE "ok"

CircleNew == [status |-> "new", r_inner |-> 0, vy |-> 0, vz |-> 0, calls |-> 0, r |-> 0]

\* CircleAperture(zoom=[., vy, vz], r_inner=r_inner)
CircleInit(r_inner, vy, vz) ==
    /\ circ.status = "new"
    /\ circ' = [circ EXCEPT !.status = CircleInitOutcome(r_inner, vy, vz),
                            !.r_inner = r_inner, !.vy = vy, !.vz = vz]
    /\ UNCHANGED <<flat, assign, multi, det>>

\* The radii generate_local_xy can draw, times norm(v_y):
\* r = sqrt(uniform(r_inner_n^2, 1)) lies in [r_inner_n, 1].
CircleRadii(c) == {c.r_inner, (c.r_inner + c.vy) \div 2}

\* CircleAperture.generate_local_xy on a constructed aperture.
CircleGenerate ==
    /\ circ.status = "ok"
    /\ circ.calls = 0
    /\ \E r \in CircleRadii(circ) :
          circ' = [circ EXCEPT !.calls = 1, !.r = r]
    /\ UNCHANGED <<flat, assign, multi, det>>

CircleNext ==
    \/ \E r_inner \in InnerRadii, vy \in Lengths, vz \in Lengths :
          CircleInit(r_inner, vy, vz)
    \/ CircleGenerate

Idle == [pc |-> "idle"]

CircleStart == circ = CircleNew /\ flat = Idle /\ assign = Idle /\ multi = Idle /\ det = Idle

SpecCircle == CircleStart /\ [][CircleNext]_vars

Failed(c) == c.status \in {"ValueError", "GeometryError"}

\* C5: constructing a CircleAperture with r_inner >= norm(v_y), equality
\* included, fails with an error, and no photon is processed by such an aperture.
C5_InnerRadiusRejected ==
    (circ.status # "new" /\ circ.r_inner >= circ.vy) =>
        (Failed(circ) /\ circ.calls = 0)

\* C6 as claimed: a CircleAperture whose y and z extents differ fails with a
\* GeometryError for every r_inner.
C6_AsymmetricIsGeometryError ==
    (circ.status # "new" /\ ~IsClose(circ.vy, circ.vz)) =>
        circ.status = "GeometryError"

\* C6 as amended: a CircleAperture whose y and z extents differ is never
\* constructed; the error is a GeometryError when r_inner <= norm(v_y) and the
\* ValueError of the radius check when r_inner > norm(v_y); it never draws.
C6_AsymmetricFails ==
    (circ.status # "new" /\ ~IsClose(circ.vy, circ.vz)) =>
        /\ circ.status = (IF circ.r_inner > circ.vy THEN "ValueError" ELSE "GeometryError")
        /\ circ.calls = 0

\* An asymmetric aperture with a non-zero inner radius below norm(v_y) was refused.
C6_Witness ==
    /\ circ.status = "GeometryError"
    /\ circ.r_inner > 0
    /\ circ.r_inner < circ.vy
    /\ circ.vy # circ.vz

(***************************************************************************)
(* Vectors.  A direction is a homogeneous 4-tuple of integers of Euclidean *)
(* length Unit, so a dot product of two directions is in units of          *)
(* 1 / Unit^2.  Unit comes from the Pythagorean triple (m^2-1, 2m, m^2+1). *)
(***************************************************************************)
TripleM == 2
LegA == TripleM * TripleM - 1
LegB == 2 * TripleM
Unit == TripleM * TripleM + 1
UnitSq == Unit * Unit

Dot(a, b) == a[1] * b[1] + a[2] * b[2] + a[3] * b[3] + a[4] * b[4]
Neg(a) == <<0 - a[1], 0 - a[2], 0 - a[3], 0 - a[4]>>
Scaled(k, a) == <<k * a[1], k * a[2], k * a[3], k * a[4]>>
Plus(a, b) == <<a[1] + b[1], a[2] + b[2], a[3] + b[3], a[4] + b[4]>>

\* np.clip(v, lo, hi)
Clip(v, lo, hi) == IF v < lo THEN lo ELSE IF v > hi THEN hi ELSE v

\* Orthonormal frames (e_x, e_y, e_z) an element can be oriented in.
Frames ==
    { [e_x |-> <<Unit, 0, 0, 0>>, e_y |-> <<0, Unit, 0, 0>>, e_z |-> <<0, 0, Unit, 0>>],
      [e_x |-> <<LegA, LegB, 0, 0>>, e_y |-> <<0 - LegB, LegA, 0, 0>>, e_z |-> <<0, 0, Unit, 0>>],
      [e_x |-> <<0 - Unit, 0, 0, 0>>, e_y |-> <<0, 0 - Unit, 0, 0>>, e_z |-> <<0, 0, Unit, 0>>] }

\* Photon directions: unit vectors with dir[3] == 0 in the homogeneous convention.
Directions ==
    { <<0 - Unit, 0, 0, 0>>, <<Unit, 0, 0, 0>>, <<0, Unit, 0, 0>>,
      <<0 - LegA, 0 - LegB, 0, 0>>, <<0 - LegB, LegA, 0, 0>> }

(***************************************************************************)
(* Photon batches: a sequence of rows, each a function from column names   *)
(* to values; all rows of a batch have the same columns.                   *)
(***************************************************************************)
MaxPhotons == 2
\* A float that may be nan: the empty tuple for nan, <<v>> for the number v.
NaN == <<>>
Num(v) == <<v>>


Rows(photons) == 1..Len(photons)
ColNames(photons) == IF Len(photons) = 0 THEN {} ELSE DOMAIN photons[1]

\* photons[name] = vals  (astropy Table column assignment: adds or overwrites)
SetCol(photons, name, vals) ==
    [i \in Rows(photons) |->
        [c \in DOMAIN photons[i] \cup {name} |->
            IF c = name THEN vals[i] ELSE photons[i][c]]]

Const(photons, v) == [i \in Rows(photons) |-> v]

(***************************************************************************)
(* FlatAperture  (aperture.py 41-74) and its two shapes.                   *)
(***************************************************************************)
LocalGrid == {0 - 1, 0, 1}

\* RectangleAperture.generate_local_xy: x, y = random() * 2 - 1, in [-1, 1)
RectangleLocalXY == {xy \in LocalGrid \X LocalGrid : xy[1] < 1 /\ xy[2] < 1}

\* CircleAperture.generate_local_xy (full circle): r^2 in [r_inner_n^2, 1]
CircleLocalXY(r_inner, vy) ==
    {xy \in LocalGrid \X LocalGrid :
        LET rr == xy[1] * xy[1] + xy[2] * xy[2]
        IN  r_inner * r_inner <= rr * vy * vy /\ rr <= 1}

GenerateLocalXY(ap) ==
    IF ap.kind = "rectangle" THEN RectangleLocalXY
    ELSE CircleLocalXY(ap.r_inner, ap.zoom[1])

\* self.add_output_cols(photons, names): absent columns are added, filled with nan
AddOutputCols(photons, names) ==
    [i \in Rows(photons) |->
        [c \in DOMAIN photons[i] \cup {names[j] : j \in DOMAIN names} |->
            IF c \in DOMAIN photons[i] THEN photons[i][c] ELSE NaN]]

\* geometry['center'], geometry['v_y'], geometry['v_z'] in units of 1 / Unit
Center(ap) == <<ap.position[1] * Unit, ap.position[2] * Unit, ap.position[3] * Unit, Unit>>
VY(ap) == Scaled(ap.zoom[1], ap.frame.e_y)
VZ(ap) == Scaled(ap.zoom[2], ap.frame.e_z)

\* Faulty variant: the centre left out of the position
LocalToPosNoCenter(ap, xy) == Plus(Scaled(xy[1], VY(ap)), Scaled(xy[2], VZ(ap)))

\* center + x * v_y + y * v_z
LocalToPos(ap, xy) == Plus(Center(ap), Plus(Scaled(xy[1], VY(ap)), Scaled(xy[2], VZ(ap))))

\* np.dot(photons['dir'], - e_x), in units of 1 / UnitSq
ProjectedArea(dir, ap) == Dot(dir, Neg(ap.frame.e_x))

\* Faulty variant: the projected area used without clipping
AttenuateUnclipped(probability, area) == (probability * area) \div UnitSq

\* probability * np.clip(projected_area, 0, 1.)
Attenuate(probability, area) == (probability * Clip(area, 0, UnitSq)) \div UnitSq

\* FlatAperture.__call__(photons); xy[i] is the local position drawn for row i.
FlatApertureCall(ap, photons, xy) ==
    LET p1 == AddOutputCols(photons, ap.loc_coos_name)
        p2 == IF ap.id_col # "None" THEN SetCol(p1, ap.id_col, Const(p1, ap.id_num)) ELSE p1
        p3 == IF ap.loc_coos_name # <<>>
              THEN SetCol(SetCol(p2, ap.loc_coos_name[1], [i \in Rows(p2) |-> xy[i][1]]),
                          ap.loc_coos_name[2], [i \in Rows(p2) |-> xy[i][2]])
              ELSE p2
        p4 == SetCol(p3, "pos", [i \in Rows(p3) |-> LocalToPos(ap, xy[i])])
    IN  SetCol(p4, "probability",
               [i \in Rows(p4) |-> Attenuate(p4[i]["probability"], ProjectedArea(p4[i]["dir"], ap))])

\* Aperture configurations.
Zooms == {<<1, 1>>, <<1, 2>>}
Positions == {<<1, 0 - 2, 3>>}
IdCols == {"None", "id"}
LocCoosNames == {<<>>, <<"y", "z">>}

FlatApertures ==
    { [kind |-> k, frame |-> f, zoom |-> z, position |-> c, r_inner |-> r,
       id_col |-> ic, id_num |-> 7, loc_coos_name |-> l] :
         k \in {"rectangle", "circle"}, f \in Frames, z \in Zooms, c \in Positions,
         r \in {0, 1}, ic \in IdCols, l \in LocCoosNames }

\* A circle has equal zoom in y and z and r_inner <= norm(v_y); a rectangle has no r_inner.
ValidAperture(ap) ==
    IF ap.kind = "circle"
    THEN ap.zoom[1] = ap.zoom[2] /\ ap.r_inner <= ap.zoom[1]
    ELSE ap.r_inner = 0

\* The plain apertures the attenuation is exercised on: every frame, no id column.
PlainApertures ==
    {ap \in FlatApertures :
        ap.kind = "rectangle" /\ ap.r_inner = 0 /\ ap.zoom = <<1, 2>>
        /\ ap.id_col = "None" /\ ap.loc_coos_name = <<"y", "z">>}

\* The apertures the column bookkeeping is exercised on: every shape and column
\* configuration, in the rotated frames.
ColumnApertures ==
    {ap \in FlatApertures : ValidAperture(ap) /\ ap.frame.e_x[2] # 0}

\* A source's photon: energy is the row's serial number, polarization a tag of it.
Photon(n, dir, prob) ==
    [c \in {"dir", "energy", "polarization", "probability", "time"} |->
        CASE c = "dir" -> dir
          [] c = "energy" -> n
          [] c = "polarization" -> 10 + n
          [] c = "probability" -> prob
          [] OTHER -> 100 + n]

ProbOne == 2 * UnitSq
Probabilities == {0, UnitSq, ProbOne}

Batches(dirs, probs) ==
    UNION { { [i \in 1..n |-> Photon(i, d[i], p[i])] :
                d \in [1..n -> dirs], p \in [1..n -> probs] } :
            n \in 0..MaxPhotons }

\* Columns a batch may carry before it reaches the aperture.
Prefilled(photons, on) ==
    IF on THEN SetCol(SetCol(SetCol(photons, "pos", Const(photons, <<0, 0, 0, Unit>>)),
                             "id", Const(photons, 3)), "y", Const(photons, NaN))
    ELSE photons

FlatReady(ap, b) == [pc |-> "ready", ap |-> ap, input |-> b, photons |-> b]

FlatInit ==
    /\ circ = CircleNew /\ assign = Idle /\ multi = Idle /\ det = Idle
    /\ \E ap \in PlainApertures, b \in Batches(Directions, Probabilities) :
          flat = FlatReady(ap, b)

FlatColsInit ==
    /\ circ = CircleNew /\ assign = Idle /\ multi = Idle /\ det = Idle
    /\ \E ap \in ColumnApertures, on \in BOOLEAN,
          b \in Batches({<<0 - Unit, 0, 0, 0>>, <<0 - LegB, LegA, 0, 0>>}, {UnitSq, ProbOne}) :
          flat = FlatReady(ap, Prefilled(b, on))

FlatCall ==
    /\ flat.pc = "ready"
    /\ \E xy \in [Rows(flat.photons) -> GenerateLocalXY(flat.ap)] :
          flat' = [flat EXCEPT !.pc = "returned",
                               !.photons = FlatApertureCall(flat.ap, flat.photons, xy)]
    /\ UNCHANGED <<circ, assign, multi, det>>

FlatNext == FlatCall

SpecFlat == FlatInit /\ [][FlatNext]_vars
SpecFlatCols == FlatColsInit /\ [][FlatNext]_vars

\* C1: FlatAperture.__call__ leaves every photon's probability in
\* [0, original probability]: the probability is the original times
\* clip(dir . (-e_x), 0, 1), and it is 0 for a photon with dir . e_x >= 0.
C1_ProbabilityBound ==
    flat.pc = "returned" =>
        \A i \in Rows(flat.photons) :
            LET before == flat.input[i]["probability"]
                after == flat.photons[i]["probability"]
                cosine == Dot(flat.input[i]["dir"], flat.ap.frame.e_x)
            IN  /\ 0 <= after /\ after <= before
                /\ cosine >= 0 => after = 0
                /\ cosine < 0 => after * UnitSq = before * (0 - cosine)

\* A photon of positive probability coming in through the back face, and one
\* coming in obliquely through the front, have been processed.
C1_Witness ==
    /\ flat.pc = "returned"
    /\ \E i, j \in Rows(flat.photons) :
          /\ flat.input[i]["probability"] > 0
          /\ Dot(flat.input[i]["dir"], flat.ap.frame.e_x) > 0
          /\ flat.photons[i]["probability"] = 0
          /\ flat.photons[j]["probability"] > 0
          /\ flat.photons[j]["probability"] < flat.input[j]["probability"]

\* The columns FlatAperture.__call__ writes.
WrittenCols(ap) ==
    {"pos", "probability"}
        \cup {ap.loc_coos_name[j] : j \in DOMAIN ap.loc_coos_name}
        \cup (IF ap.id_col = "None" THEN {} ELSE {ap.id_col})

\* C7: FlatAperture.__call__ returns the same rows in the same order; every
\* column it does not write (dir, energy, polarization, extra columns) keeps its
\* values; it writes only pos, probability, the local coordinates and the id
\* column; the written pos is a homogeneous point (pos[3] == 1).
C7_ColumnsPreserved ==
    flat.pc = "returned" =>
        /\ Len(flat.photons) = Len(flat.input)
        /\ \A i \in Rows(flat.input) :
              /\ DOMAIN flat.photons[i] = DOMAIN flat.input[i] \cup WrittenCols(flat.ap)
              /\ {"dir", "energy", "polarization"} \cap WrittenCols(flat.ap) = {}
              /\ \A c \in DOMAIN flat.input[i] \ WrittenCols(flat.ap) :
                    flat.photons[i][c] = flat.input[i][c]
              /\ flat.photons[i]["pos"][4] = Unit

\* Two rows with a prefilled extra column went through an aperture that writes
\* an id column and local coordinates.
C7_Witness ==
    /\ flat.pc = "returned"
    /\ Len(flat.input) >= 2
    /\ "id" \in DOMAIN flat.input[1]
    /\ flat.ap.id_col # "None"
    /\ flat.ap.loc_coos_name # <<>>
    /\ flat.photons[1]["energy"] # flat.photons[2]["energy"]
    /\ flat.photons[2]["pos"] # Center(flat.ap)

(***************************************************************************)
(* MultiAperture: assignment of photons to sub-apertures by area           *)
(* (aperture.py 186-193).  Areas are in units of 1/113 mm^2, with pi taken *)
(* as 355/113.  A uniform draw in [0, 1) is an integer numerator over      *)
(* DrawRes * total area, and so are the bins cumsum(areas) / total area.   *)
(***************************************************************************)
MaxElems == 3
DrawRes == 2

\* RectangleAperture.area: 4 |v_y| |v_z|;  CircleAperture.area for the full
\* circle: (phi[1] - phi[0]) / (2 pi) * pi * (|v_y|^2 - r_inner^2)
Area(ap) ==
    IF ap.kind = "rectangle" THEN 4 * ap.zoom[1] * ap.zoom[2] * 113
    ELSE 355 * (ap.zoom[1] * ap.zoom[1] - ap.r_inner * ap.r_inner)

\* [e.area for e in self.elements]
Areas(elements) == [j \in DOMAIN elements |-> Area(elements[j])]

RECURSIVE SumTo(_, _)
SumTo(areas, j) == IF j = 0 THEN 0 ELSE SumTo(areas, j - 1) + areas[j]

\* MultiAperture.area
TotalArea(areas) == SumTo(areas, Len(areas))

\* Faulty variant: the areas themselves, not their cumulative sum
AreaFractions(areas) == [j \in DOMAIN areas |-> DrawRes * areas[j]]

\* np.cumsum(areas) / self.area
CumFractions(areas) == [j \in DOMAIN areas |-> DrawRes * SumTo(areas, j)]

\* Faulty variant: np.digitize(x, bins, right=True)
DigitizeRight(x, bins) == Cardinality({j \in DOMAIN bins : bins[j] < x})

\* np.digitize(x, bins) for increasing bins: the i with bins[i-1] <= x < bins[i]
Digitize(x, bins) == Cardinality({j \in DOMAIN bins : bins[j] <= x})

\* np.random.rand(): the draws in [0, 1) at, just below and just above every bin edge.
Draws(areas) ==
    {n \in 0..(DrawRes * TotalArea(areas) - 1) :
        \/ n = 0
        \/ n = DrawRes * TotalArea(areas) - 1
        \/ \E j \in DOMAIN areas, d \in {0 - 1, 0, 1} : n = DrawRes * SumTo(areas, j) + d}

\* The shapes of the sub-apertures: two rectangles, a full disk, a ring of zero width.
Shapes ==
    { [kind |-> "rectangle", zoom |-> <<1, 1>>, r_inner |-> 0],
      [kind |-> "rectangle", zoom |-> <<1, 2>>, r_inner |-> 0],
      [kind |-> "circle", zoom |-> <<1, 1>>, r_inner |-> 0],
      [kind |-> "circle", zoom |-> <<1, 1>>, r_inner |-> 1] }

ShapeLists == UNION { [1..k -> Shapes] : k \in 1..MaxElems }

AssignInit ==
    /\ circ = CircleNew /\ flat = Idle /\ multi = Idle /\ det = Idle
    /\ \E shapes \in ShapeLists :
          /\ TotalArea(Areas(shapes)) > 0
          /\ assign = [pc |-> "ready", areas |-> Areas(shapes)]

\* aperid of one photon: np.digitize(np.random.rand(), np.cumsum(areas) / self.area)
AssignDraw ==
    /\ assign.pc = "ready"
    /\ \E r \in Draws(assign.areas) :
          assign' = [pc |-> "assigned", areas |-> assign.areas, r |-> r,
                     aperid |-> Digitize(r, CumFractions(assign.areas))]
    /\ UNCHANGED <<circ, flat, multi, det>>

AssignNext == AssignDraw

SpecAssign == AssignInit /\ [][AssignNext]_vars

\* C[i] for i in -1 .. k-1 (0-based, C[-1] = 0), over DrawRes * total area
CumEdge(areas, i) == IF i < 0 THEN 0 ELSE CumFractions(areas)[i + 1]

\* C3: a photon with draw r is assigned to sub-aperture i exactly when
\* C[i-1] <= r < C[i], C = cumsum(areas)/total area, C[-1] = 0; the width of that
\* interval is area_i / total area; a sub-aperture of zero area gets no photon.
C3_InverseTransform ==
    assign.pc = "assigned" =>
        LET k == Len(assign.areas) IN
        /\ \A i \in 0..(k - 1) :
              /\ (assign.aperid = i) <=>
                    (CumEdge(assign.areas, i - 1) <= assign.r
                        /\ assign.r < CumEdge(assign.areas, i))
              /\ CumEdge(assign.areas, i) - CumEdge(assign.areas, i - 1)
                    = DrawRes * assign.areas[i + 1]
        /\ assign.aperid \in 0..(k - 1)
        /\ assign.areas[assign.aperid + 1] > 0

\* A draw exactly on the edge shared by a zero-area sub-aperture and its successor.
C3_Witness ==
    /\ assign.pc = "assigned"
    /\ Len(assign.areas) >= 3
    /\ assign.areas[1] > 0
    /\ assign.areas[2] = 0
    /\ assign.r = CumEdge(assign.areas, 0)
    /\ assign.aperid = 2

(***************************************************************************)
(* MultiAperture.__call__  (aperture.py 191-210), one action per statement *)
(* of the loop.  multi.log records every callable invoked, the index of    *)
(* the sub-aperture of the iteration and the photons (by energy) it saw.   *)
(***************************************************************************)
RECURSIVE MaskRows(_, _, _)
MaskRows(photons, mask, n) ==
    IF n = 0 THEN <<>>
    ELSE IF mask[n] THEN Append(MaskRows(photons, mask, n - 1), photons[n])
    ELSE MaskRows(photons, mask, n - 1)

\* Faulty variant: the mask left out: every photon goes to every sub-aperture
SelectRowsAll(photons, aperid, i) == MaskRows(photons, [r \in Rows(photons) |-> TRUE], Len(photons))

\* photons[aperid == i]: a copy of the rows assigned to i, in their order
SelectRows(photons, aperid, i) ==
    MaskRows(photons, [r \in Rows(photons) |-> aperid[r] = i], Len(photons))

\* Faulty variant: ids counted from 1
TagPhotonsOneBased(photons, id_col, aperid) ==
    IF id_col # "None" THEN SetCol(photons, id_col, [r \in Rows(photons) |-> aperid[r] + 1])
    ELSE photons

\* if self.id_col is not None: photons[self.id_col] = aperid
TagPhotons(photons, id_col, aperid) ==
    IF id_col # "None" THEN SetCol(photons, id_col, aperid) ELSE photons

\* A pre- or postprocess step: a callable that changes its photons in place and
\* returns nothing; here it appends its name to the photons' trail column.
Step(name, photons) ==
    SetCol(photons, "trail", [r \in Rows(photons) |-> Append(photons[r]["trail"], name)])

RECURSIVE Concat(_, _)
Concat(outs, n) == IF n = 0 THEN <<>> ELSE Concat(outs, n - 1) \o outs[n]

\* table.vstack(outs): the rows of the tables in order; a column a table lacks is masked
VStack(outs) ==
    LET all == Concat(outs, Len(outs))
        cols == UNION {DOMAIN all[r] : r \in DOMAIN all}
    IN  [r \in DOMAIN all |->
            [c \in cols |-> IF c \in DOMAIN all[r] THEN all[r][c] ELSE "masked"]]

Energies(photons) == {photons[r]["energy"] : r \in Rows(photons)}

LogEntry(op, i, step, photons) ==
    [op |-> op, i |-> i, step |-> step, rows |-> Energies(photons)]

NumElements == Len(multi.elements)

\* areas, aperid, the id column, outs = []   (lines 192-198)
MultiStart ==
    /\ multi.pc = "ready"
    /\ \E rand \in [Rows(multi.photons) -> Draws(Areas(multi.elements))] :
          LET aperid == [r \in Rows(multi.photons) |->
                            Digitize(rand[r], CumFractions(Areas(multi.elements)))]
          IN  multi' = [multi EXCEPT !.pc = "loop", !.aperid = aperid,
                                     !.photons = TagPhotons(multi.photons, multi.id_col, aperid),
                                     !.outs = <<>>, !.i = 0]
    /\ UNCHANGED <<circ, flat, assign, det>>

\* for i, elem in enumerate(self.elements): thisphot = photons[aperid == i]
MultiSelect ==
    /\ multi.pc = "loop"
    /\ multi.i < NumElements
    /\ multi' = [multi EXCEPT !.pc = "pre", !.j = 1,
                              !.thisphot = SelectRows(multi.photons, multi.aperid, multi.i)]
    /\ UNCHANGED <<circ, flat, assign, det>>

\* for p in self.preprocess_steps: p(thisphot)
MultiPre ==
    /\ multi.pc = "pre"
    /\ multi.j <= Len(multi.preprocess_steps)
    /\ multi' = [multi EXCEPT
                    !.j = multi.j + 1,
                    !.thisphot = Step(multi.preprocess_steps[multi.j], multi.thisphot),
                    !.log = Append(multi.log,
                                   LogEntry("pre", multi.i, multi.preprocess_steps[multi.j],
                                            multi.thisphot))]
    /\ UNCHANGED <<circ, flat, assign, det>>

\* thisphot = elem(thisphot)
MultiElem ==
    /\ multi.pc = "pre"
    /\ multi.j > Len(multi.preprocess_steps)
    /\ \E xy \in [Rows(multi.thisphot) -> GenerateLocalXY(multi.elements[multi.i + 1])] :
          multi' = [multi EXCEPT
                       !.pc = "post", !.j = 1,
                       !.thisphot = FlatApertureCall(multi.elements[multi.i + 1],
                                                     multi.thisphot, xy),
                       !.log = Append(multi.log,
                                      LogEntry("elem", multi.i, "call", multi.thisphot))]
    /\ UNCHANGED <<circ, flat, assign, det>>

\* for p in self.postprocess_steps: p(thisphot)
MultiPost ==
    /\ multi.pc = "post"
    /\ multi.j <= Len(multi.postprocess_steps)
    /\ multi' = [multi EXCEPT
                    !.j = multi.j + 1,
                    !.thisphot = Step(multi.postprocess_steps[multi.j], multi.thisphot),
                    !.log = Append(multi.log,
                                   LogEntry("post", multi.i, multi.postprocess_steps[multi.j],
                                            multi.thisphot))]
    /\ UNCHANGED <<circ, flat, assign, det>>

\* outs.append(thisphot)
MultiAppend ==
    /\ multi.pc = "post"
    /\ multi.j > Len(multi.postprocess_steps)
    /\ multi' = [multi EXCEPT !.pc = "loop", !.i = multi.i + 1,
                              !.outs = Append(multi.outs, multi.thisphot)]
    /\ UNCHANGED <<circ, flat, assign, det>>

\* photons = table.vstack(outs); return photons
MultiStack ==
    /\ multi.pc = "loop"
    /\ multi.i = NumElements
    /\ multi' = [multi EXCEPT !.pc = "done", !.result = VStack(multi.outs)]
    /\ UNCHANGED <<circ, flat, assign, det>>

MultiNext ==
    \/ MultiStart
    \/ MultiSelect
    \/ MultiPre
    \/ MultiElem
    \/ MultiPost
    \/ MultiAppend
    \/ MultiStack

\* The j-th sub-aperture of a MultiAperture: apertures do not overlap.
SubAperture(shape, id_col, j) ==
    [kind |-> shape.kind, frame |-> CHOOSE f \in Frames : f.e_x = <<Unit, 0, 0, 0>>,
     zoom |-> shape.zoom, position |-> <<0, 10 * j, 0>>, r_inner |-> shape.r_inner,
     id_col |-> id_col, id_num |-> 7, loc_coos_name |-> <<"y", "z">>]

\* Batches from a source straight ahead of the apertures.
SourceBatches ==
    { SetCol(b, "trail", Const(b, <<>>)) : b \in Batches({<<0 - Unit, 0, 0, 0>>}, {ProbOne}) }

MultiReady(elements, id_col, pre, post, b) ==
    [pc |-> "ready", elements |-> elements, id_col |-> id_col,
     preprocess_steps |-> pre, postprocess_steps |-> post,
     input |-> b, photons |-> b, aperid |-> <<>>, i |-> 0, j |-> 0,
     thisphot |-> <<>>, outs |-> <<>>, log |-> <<>>, result |-> <<>>]

\* How many sub-apertures a MultiAperture under test groups.
ElementCounts == {1, 2}

\* The unit square and the ring of zero width.
MultiShapes ==
    {sh \in Shapes : sh.zoom = <<1, 1>> /\ (sh.kind = "rectangle" \/ sh.r_inner = 1)}

\* Sub-apertures of every id column configuration, of positive and of zero area.
MultiInit ==
    /\ circ = CircleNew /\ flat = Idle /\ assign = Idle /\ det = Idle
    /\ \E k \in ElementCounts :
       \E shapes \in [1..k -> MultiShapes],
          cols \in [1..k -> {"None", "aperture", "id"}],
          id_col \in {"None", "aperture"}, b \in SourceBatches :
          /\ TotalArea(Areas(shapes)) > 0
          /\ multi = MultiReady([j \in 1..k |-> SubAperture(shapes[j], cols[j], j)],
                                id_col, <<"a">>, <<"b">>, b)

SpecMulti == MultiInit /\ [][MultiNext]_vars

\* The sub-aperture (counted from 0) whose footprint holds a position.
SourceOf(pos) ==
    CHOOSE i \in 0..(NumElements - 1) :
        \E xy \in GenerateLocalXY(multi.elements[i + 1]) :
            LocalToPos(multi.elements[i + 1], xy) = pos

\* C2: every incoming photon gets an index in 0..k-1, is handed to exactly one
\* sub-aperture and appears exactly once in the returned batch, which has as
\* many photons as the input.
C2_Partition ==
    /\ multi.pc \notin {"idle", "ready"} =>
          \A r \in Rows(multi.photons) : multi.aperid[r] \in 0..(NumElements - 1)
    /\ multi.pc = "done" =>
          /\ Len(multi.result) = Len(multi.input)
          /\ \A r \in Rows(multi.input) :
                LET e == multi.input[r]["energy"] IN
                /\ Cardinality({q \in Rows(multi.result) : multi.result[q]["energy"] = e}) = 1
                /\ Cardinality({n \in DOMAIN multi.log :
                                   multi.log[n].op = "elem" /\ e \in multi.log[n].rows}) = 1

\* Two photons went to two different sub-apertures and came back.
C2_Witness ==
    /\ multi.pc = "done"
    /\ Len(multi.result) >= 2
    /\ \E r, q \in Rows(multi.input) : multi.aperid[r] # multi.aperid[q]

\* C4 as claimed: with an id column, every returned photon carries in it the
\* index of the sub-aperture that generated its position, whatever id column the
\* sub-apertures are configured with.
C4_TaggedWithIndex ==
    (multi.pc = "done" /\ multi.id_col # "None") =>
        \A r \in Rows(multi.result) :
            multi.result[r][multi.id_col] = SourceOf(multi.result[r]["pos"])

\* C4 as amended: the id column holds the index of the sub-aperture that
\* generated the position, unless that sub-aperture writes the same column
\* itself, and then it holds that sub-aperture's id_num.
C4_TaggedUnlessOverwritten ==
    (multi.pc = "done" /\ multi.id_col # "None") =>
        \A r \in Rows(multi.result) :
            LET i == SourceOf(multi.result[r]["pos"])
                elem == multi.elements[i + 1]
            IN  multi.result[r][multi.id_col] =
                    (IF elem.id_col = multi.id_col THEN elem.id_num ELSE i)

\* A photon came back from the second sub-aperture, which writes another id
\* column, tagged with index 1.
C4_Witness ==
    /\ multi.pc = "done"
    /\ multi.id_col # "None"
    /\ \E r \in Rows(multi.result) :
          /\ SourceOf(multi.result[r]["pos"]) = 1
          /\ multi.elements[2].id_col = "id"
          /\ multi.result[r]["id"] = 7
          /\ multi.result[r][multi.id_col] = 1

\* The step lists a MultiAperture is configured with.
StepLists == {<<>>, <<"s1">>, <<"s1", "s2">>}

\* Unit squares without id columns, under every pair of step lists.
MultiOrderInit ==
    /\ circ = CircleNew /\ flat = Idle /\ assign = Idle /\ det = Idle
    /\ \E k \in 1..MaxElems, pre \in StepLists, post \in StepLists, b \in SourceBatches :
          multi = MultiReady(
                    [j \in 1..k |->
                        SubAperture(CHOOSE sh \in MultiShapes : sh.kind = "rectangle", "None", j)],
                    "aperture", pre, post, b)

SpecMultiOrder == MultiOrderInit /\ [][MultiNext]_vars

\* The photons (by energy) assigned to sub-aperture i.
Assigned(i) ==
    {multi.input[r]["energy"] : r \in {q \in Rows(multi.input) : multi.aperid[q] = i}}

\* What one iteration of the loop is to invoke, in order, for sub-aperture i.
IterationOf(i) ==
    [n \in 1..Len(multi.preprocess_steps) |->
        [op |-> "pre", i |-> i, step |-> multi.preprocess_steps[n], rows |-> Assigned(i)]]
    \o <<[op |-> "elem", i |-> i, step |-> "call", rows |-> Assigned(i)]>>
    \o [n \in 1..Len(multi.postprocess_steps) |->
        [op |-> "post", i |-> i, step |-> multi.postprocess_steps[n], rows |-> Assigned(i)]]

RECURSIVE IterationsBelow(_)
IterationsBelow(i) == IF i = 0 THEN <<>> ELSE IterationsBelow(i - 1) \o IterationOf(i - 1)

IsPrefix(a, b) == Len(a) <= Len(b) /\ SubSeq(b, 1, Len(a)) = a

\* C10: within one call, for the sub-apertures in list order, all preprocess
\* steps run in order on the photons assigned to i, then sub-aperture i, then all
\* postprocess steps in order on its output, before sub-aperture i+1 is touched;
\* each sees only the photons assigned to i; every sub-aperture is invoked once.
C10_StepOrder ==
    multi.pc \notin {"idle", "ready"} =>
        /\ IsPrefix(multi.log, IterationsBelow(NumElements))
        /\ Len(multi.log) >= Len(IterationsBelow(multi.i))
        /\ multi.pc = "done" =>
              /\ multi.log = IterationsBelow(NumElements)
              /\ \A i \in 0..(NumElements - 1) :
                    Cardinality({n \in DOMAIN multi.log :
                                    multi.log[n].op = "elem" /\ multi.log[n].i = i}) = 1
              /\ \A r \in Rows(multi.result) :
                    multi.result[r]["trail"]
                        = multi.preprocess_steps \o multi.postprocess_steps

\* Two sub-apertures, each with photons, ran between two preprocess steps and a
\* postprocess step.
C10_Witness ==
    /\ multi.pc = "done"
    /\ NumElements = 2
    /\ Len(multi.preprocess_steps) = 2
    /\ Len(multi.postprocess_steps) >= 1
    /\ Assigned(0) # {}
    /\ Assigned(1) # {}

(***************************************************************************)
(* FlatDetector, as exercised by tests/test_detector.py: the pixel grid    *)
(* and process_photons.  Lengths are in units of 0.05 mm.  A detector at   *)
(* the origin in the default orientation: e_x is the normal, the local     *)
(* coordinates are the y and z of the intersection point.                  *)
(***************************************************************************)
\* The ratio 2 * scale / pixsize is a floating point number: it is known to
\* 1 / FloatRes, and the last place may be off by one either way.
FloatRes == 1000
FloatErrors == {0 - 1, 0, 1}

Ratio(scale, pixsize, err) == (2 * scale * FloatRes) \div pixsize + err

\* Faulty variant: int(ratio): the ratio rounded down
NpixFloor(scale, pixsize, err) == Ratio(scale, pixsize, err) \div FloatRes

\* npix = round(2 * scale / pixsize), halves to the even integer
Npix(scale, pixsize, err) ==
    LET n == Ratio(scale, pixsize, err)
        q == n \div FloatRes
        rem == n % FloatRes
    IN  IF 2 * rem < FloatRes THEN q
        ELSE IF 2 * rem > FloatRes THEN q + 1
        ELSE IF q % 2 = 0 THEN q ELSE q + 1

\* centerpix = (npix - 1) / 2, kept as its double
Centerpix2(npix) == npix - 1

\* zoom [., 10, 5], [., 1, 1] (the default), [., 2, 3];  pixsize 0.05, 0.3, 0.5
DetScales == {<<200, 100>>, <<20, 20>>, <<40, 60>>}
PixSizes == {1, 6, 10}

\* FlatDetector(zoom=..., pixsize=...)
DetBuild ==
    /\ det.pc = "new"
    /\ \E scale \in DetScales, pixsize \in PixSizes, ey \in FloatErrors, ez \in FloatErrors :
          LET npix == <<Npix(scale[1], pixsize, ey), Npix(scale[2], pixsize, ez)>>
          IN  det' = [pc |-> "built", scale |-> scale, pixsize |-> pixsize,
                      ratio |-> <<Ratio(scale[1], pixsize, ey), Ratio(scale[2], pixsize, ez)>>,
                      npix |-> npix,
                      centerpix2 |-> <<Centerpix2(npix[1]), Centerpix2(npix[2])>>]
    /\ UNCHANGED <<circ, flat, assign, multi>>

\* The photons of test_pixelnumbers, a ray parallel to the detector and one
\* flying onto its centre.
DetPhotons ==
    { [pos |-> <<0, 0, 0 - 5, 1>>, dir |-> <<1, 1, 1, 0>>],
      [pos |-> <<0, 198, 20, 1>>, dir |-> <<1, 1, 1, 0>>],
      [pos |-> <<0, 202, 20, 1>>, dir |-> <<1, 1, 1, 0>>],
      [pos |-> <<20, 0, 0, 1>>, dir |-> <<0, 1, 0, 0>>],
      [pos |-> <<40, 0, 0, 1>>, dir |-> <<0 - 1, 0, 0, 0>>] }

DetBatches == UNION { [1..n -> DetPhotons] : n \in 0..MaxPhotons }

\* Ray and plane x = 0: t with (pos + t dir) . e_x = 0; a parallel ray misses.
\* The directions have dir . e_x in {-1, 0, 1}, so t = - pos_x * dir_x.
IntersectLocal(p) ==
    IF p.dir[1] = 0 THEN <<NaN, NaN>>
    ELSE LET t == 0 - p.pos[1] * p.dir[1]
         IN  <<Num(p.pos[2] + t * p.dir[2]), Num(p.pos[3] + t * p.dir[3])>>

\* The membership test of the rectangle, on local coordinates
DetHit(local, scale) ==
    /\ local[1] # NaN
    /\ local[2] # NaN
    /\ Abs(local[1][1]) <= scale[1]
    /\ Abs(local[2][1]) <= scale[2]

\* Faulty variant: a miss put on pixel 0
DetPixelZero(local, axis, d) ==
    IF DetHit(local, d.scale)
    THEN Num(2 * local[axis][1] + d.centerpix2[axis] * d.pixsize)
    ELSE Num(0)

\* local_coord / pixsize + centerpix, as a numerator over 2 * pixsize; nan for a miss
DetPixel(local, axis, d) ==
    IF DetHit(local, d.scale)
    THEN Num(2 * local[axis][1] + d.centerpix2[axis] * d.pixsize)
    ELSE NaN

DetCoord(local, axis, d) == IF DetHit(local, d.scale) THEN local[axis] ELSE NaN

\* FlatDetector.process_photons(photons)
DetProcess ==
    /\ det.pc = "built"
    /\ \E b \in DetBatches :
          det' = [pc |-> "processed", scale |-> det.scale, pixsize |-> det.pixsize,
                  ratio |-> det.ratio, npix |-> det.npix, centerpix2 |-> det.centerpix2,
                  input |-> b,
                  photons |->
                     [r \in Rows(b) |->
                        LET local == IntersectLocal(b[r]) IN
                        [pos |-> b[r].pos, dir |-> b[r].dir,
                         det_x |-> DetCoord(local, 1, det), det_y |-> DetCoord(local, 2, det),
                         detpix_x |-> DetPixel(local, 1, det),
                         detpix_y |-> DetPixel(local, 2, det)]]]
    /\ UNCHANGED <<circ, flat, assign, multi>>

DetNext == DetBuild \/ DetProcess

DetStart == circ = CircleNew /\ flat = Idle /\ assign = Idle /\ multi = Idle /\ det = [pc |-> "new"]

SpecDet == DetStart /\ [][DetNext]_vars

\* C8: a photon that misses the detector (local coordinates nan, or outside the
\* active area) has det_x, det_y, detpix_x and detpix_y all nan; a photon that
\* hits has detpix = local_coord / pixsize + centerpix on each axis.
C8_MissIsNaN ==
    det.pc = "processed" =>
        \A r \in Rows(det.photons) :
            LET ph == det.photons[r]
                local == IntersectLocal(det.input[r])
                miss == \/ local[1] = NaN
                        \/ Abs(local[1][1]) > det.scale[1]
                        \/ Abs(local[2][1]) > det.scale[2]
            IN  IF miss
                THEN ph.det_x = NaN /\ ph.det_y = NaN /\ ph.detpix_x = NaN /\ ph.detpix_y = NaN
                ELSE /\ ph.det_x = local[1] /\ ph.det_y = local[2]
                     /\ ph.detpix_x = Num(2 * local[1][1] + (det.npix[1] - 1) * det.pixsize)
                     /\ ph.detpix_y = Num(2 * local[2][1] + (det.npix[2] - 1) * det.pixsize)

\* test_pixelnumbers: on the detector of zoom [1, 10, 5] and pixsize 0.5 the photon
\* at y = 9.9, z = 1 is on pixel (39.3, 11.5), the one at y = 10.1 misses, and a
\* ray parallel to the detector misses.
C8_Witness ==
    /\ det.pc = "processed"
    /\ det.scale = <<200, 100>> /\ det.pixsize = 10
    /\ \E r, q \in Rows(det.photons) :
          /\ det.photons[r].pos = <<0, 198, 20, 1>>
          /\ det.photons[r].det_x = Num(198) /\ det.photons[r].det_y = Num(20)
          /\ det.photons[r].detpix_x = Num(786) /\ det.photons[r].detpix_y = Num(230)
          /\ det.photons[q].pos \in {<<0, 202, 20, 1>>, <<20, 0, 0, 1>>}
          /\ det.photons[q].detpix_x = NaN

\* C9: npix is the integer nearest to 2 * scale / pixsize on each axis, the ratio
\* itself when it is an integer (never one less), and centerpix = (npix - 1) / 2:
\* zoom [1, 10, 5] with pixsize 0.5 gives [40, 20] and [19.5, 9.5]; extent 2 with
\* pixsize 0.05 gives [40, 40].
C9_NearestPixelCount ==
    det.pc # "new" /\ det.pc # "idle" =>
        /\ \A axis \in 1..2 :
              /\ 2 * Abs(det.npix[axis] * det.pixsize - 2 * det.scale[axis]) <= det.pixsize
              /\ (2 * det.scale[axis]) % det.pixsize = 0 =>
                    det.npix[axis] * det.pixsize = 2 * det.scale[axis]
              /\ det.centerpix2[axis] = det.npix[axis] - 1
        /\ (det.scale = <<200, 100>> /\ det.pixsize = 10) =>
              (det.npix = <<40, 20>> /\ det.centerpix2 = <<39, 19>>)
        /\ (det.scale = <<20, 20>> /\ det.pixsize = 1) => det.npix = <<40, 40>>

\* The detector of extent 2 and pixsize 0.05 was built from a ratio that came
\* out just below 40.
C9_Witness ==
    /\ det.pc = "built"
    /\ det.scale = <<20, 20>> /\ det.pixsize = 1
    /\ det.npix = <<40, 40>>
    /\ det.ratio[1] < 40 * FloatRes

====
